---- MODULE Spec2Model ----
(***************************************************************************)
(* Model of the SSQL object-relational mapper (small-orm-sqlite, v0.2.0).  *)
(* One model class and its table are modelled.  The SQLite driver is the   *)
(* external collaborator: its statements are modelled by what they do to   *)
(* the table (columns, rows in rowid order, the AUTOINCREMENT sequence).   *)
(***************************************************************************)
EXTENDS Integers, Sequences, FiniteSets, TLC

VARIABLES
    entity,     \* the model class: own properties of `new entity()`, in declaration order
    defaults,   \* SSQL.defaults: the configured column DEFAULT per type
    db,         \* the store: NoTable, or the table of the model class
    objs,       \* the caller's in-memory instances
    dirty,      \* per instance: the fields assigned since it was last saved or loaded
    last        \* the last public call: its name, arguments, result and error

vars == <<entity, defaults, db, objs, dirty, last>>

-----------------------------------------------------------------------------
(* Bounds *)

\* AUTOINCREMENT ids handed out per run of the model
MaxRows == 2
\* in-memory instances the caller holds
MaxObjs == 2
\* non-id fields a model class declares
MaxFields == 2
\* largest LIMIT / OFFSET a query carries
MaxPage == 3

-----------------------------------------------------------------------------
(* JavaScript values and SQLite values *)

Bool(b) == [t |-> "boolean", v |-> b]
Num(n) == [t |-> "number", v |-> n]
Str(s) == [t |-> "string", v |-> s]
Undefined == [t |-> "undefined", v |-> "undefined"]
JsNull == [t |-> "object", v |-> "null"]

SqlInt(n) == [t |-> "integer", v |-> n]
SqlText(s) == [t |-> "text", v |-> s]
SqlNull == [t |-> "null", v |-> "NULL"]

\* id = -1 of SSQLTable: the instance is not persisted yet
Unsaved == -1

NoTable == [exists |-> FALSE]

\* the strings and numbers field values are drawn from
StrVals == {"", "x"}
IntVals == {0, 1}

\* decimal text of the integers the model stores
IntText(n) ==
    CASE n = -1 -> "-1"
      [] n = 0 -> "0"
      [] n = 1 -> "1"
      [] n = 2 -> "2"
      [] n = 3 -> "3"
      [] n = 4 -> "4"
      [] n = 18 -> "18"
      [] OTHER -> "n"

\* the driver binds a JavaScript value to a statement parameter
Bind(x) ==
    CASE x.t = "boolean" -> SqlInt(IF x.v THEN 1 ELSE 0)
      [] x.t = "number" -> SqlInt(x.v)
      [] x.t = "string" -> SqlText(x.v)
      [] OTHER -> SqlNull

\* the driver reads a result column into a JavaScript value
ReadColumn(s) ==
    CASE s.t = "integer" -> Num(s.v)
      [] s.t = "text" -> Str(s.v)
      [] OTHER -> JsNull

\* SQLite column affinity of a declared type
Affinity(type) ==
    CASE type = "integer" -> "INTEGER"
      [] type = "varchar" -> "TEXT"
      [] OTHER -> "NUMERIC"

\* the value SQLite stores in a column of the declared type; none of StrVals
\* is the text of a number, so text stays text in a numeric column
Coerce(type, s) ==
    IF Affinity(type) = "TEXT" /\ s.t = "integer" THEN SqlText(IntText(s.v)) ELSE s

-----------------------------------------------------------------------------
(* The model class *)

Prop(n, x) == [name |-> n, value |-> x]

\* class SSQLTable { id = -1 }
SSQLTable == <<Prop("id", Num(Unsaved))>>

\* the fields a version of the model class may declare, with their defaults
FieldPool ==
    { Prop("userName", Str("")), Prop("active", Bool(FALSE)),
      Prop("age", Num(18)), Prop("age", Str("x")) }

RECURSIVE SeqsUpTo(_, _)
SeqsUpTo(S, n) ==
    IF n = 0 THEN {<<>>}
    ELSE LET shorter == SeqsUpTo(S, n - 1)
         IN  shorter \cup {Append(s, x) : s \in shorter, x \in S}

DistinctNames(s) == \A i, j \in 1..Len(s) : i # j => s[i].name # s[j].name

\* `new entity()` of every version of the model class: id first, then its fields
Entities ==
    {SSQLTable \o s : s \in {q \in SeqsUpTo(FieldPool, MaxFields) : DistinctNames(q)}}

Names(obj) == [i \in 1..Len(obj) |-> obj[i].name]

HasProp(obj, n) == \E i \in 1..Len(obj) : obj[i].name = n

Get(obj, n) == obj[CHOOSE i \in 1..Len(obj) : obj[i].name = n].value

\* Object.getOwnPropertyDescriptor(table, column)?.value
DescriptorValue(obj, n) == IF HasProp(obj, n) THEN Get(obj, n) ELSE Undefined

SetProp(obj, n, x) ==
    [i \in 1..Len(obj) |-> IF obj[i].name = n THEN Prop(n, x) ELSE obj[i]]

\* the constructor's defaults argument: absent, or the README's override
DefaultDefaults == [bool |-> Bool(FALSE), int |-> Num(-1), str |-> Str("")]

DefaultsArgs == {DefaultDefaults, [bool |-> Bool(FALSE), int |-> Num(0), str |-> Str("")]}

\* the README's class User, cut to a string and a boolean field
User == SSQLTable \o <<Prop("userName", Str("")), Prop("active", Bool(FALSE))>>

\* the same class with the boolean field alone
Flagged == SSQLTable \o <<Prop("active", Bool(FALSE))>>

\* the same class with its number field for the boolean one
Aged == SSQLTable \o <<Prop("userName", Str("")), Prop("age", Num(18))>>

\* the versions of the class User a program is edited through
Versions == {SSQLTable, Flagged, User, Aged}

\* d without its p-th property
Remove(d, p) == SubSeq(d, 1, p - 1) \o SubSeq(d, p + 1, Len(d))

\* d2 is d1 with one more field, declared anywhere after id
Gained(d1, d2) ==
    /\ Len(d2) = Len(d1) + 1
    /\ \E p \in 2..Len(d2) : Remove(d2, p) = d1 /\ ~HasProp(d1, d2[p].name)

-----------------------------------------------------------------------------
(* Schema synchronisation *)

Column(n, type, notnull, dflt) ==
    [name |-> n, type |-> type, notnull |-> notnull, dflt |-> dflt]

\* columnInfo taking the DEFAULT from the field's own default value
columnInfoOwnDefault(dfl, table, column) ==
    LET v == DescriptorValue(table, column)
    IN  IF column = "id" THEN Column(column, "integer", TRUE, SqlNull)
        ELSE IF v.t = "boolean" THEN Column(column, "boolean", TRUE, Bind(v))
        ELSE IF v.t = "string" THEN Column(column, "varchar", FALSE, Bind(v))
        ELSE IF v.t = "number" THEN Column(column, "integer", TRUE, Bind(v))
        ELSE Column(column, "undefined", FALSE, SqlNull)

\* columnInfo testing the default value itself where it tests its type: an
\* empty string, being falsy, is taken for no string
columnInfoTruthy(dfl, table, column) ==
    LET v == DescriptorValue(table, column)
    IN  IF column = "id" THEN Column(column, "integer", TRUE, SqlNull)
        ELSE IF v.t = "boolean" THEN Column(column, "boolean", TRUE, Bind(dfl.bool))
        ELSE IF v.t = "string" /\ v.v # "" THEN Column(column, "varchar", FALSE, Bind(dfl.str))
        ELSE IF v.t = "number" THEN Column(column, "integer", TRUE, Bind(dfl.int))
        ELSE Column(column, "undefined", FALSE, SqlNull)

columnInfo(dfl, table, column) ==
    LET v == DescriptorValue(table, column)
    IN  IF column = "id" THEN Column(column, "integer", TRUE, SqlNull)
        ELSE IF v.t = "boolean" THEN Column(column, "boolean", TRUE, Bind(dfl.bool))
        ELSE IF v.t = "string" THEN Column(column, "varchar", FALSE, Bind(dfl.str))
        ELSE IF v.t = "number" THEN Column(column, "integer", TRUE, Bind(dfl.int))
        ELSE Column(column, "undefined", FALSE, SqlNull)

ColNames(tbl) == [i \in 1..Len(tbl.cols) |-> tbl.cols[i].name]

HasCol(tbl, n) == \E i \in 1..Len(tbl.cols) : tbl.cols[i].name = n

ColIdx(tbl, n) == CHOOSE i \in 1..Len(tbl.cols) : tbl.cols[i].name = n

\* createTable replacing a table that exists
createTableAnew(dfl, store, table) ==
    [exists |-> TRUE,
     cols |-> [i \in 1..Len(table) |-> columnInfo(dfl, table, table[i].name)],
     rows |-> <<>>,
     seq |-> 0]

\* CREATE TABLE IF NOT EXISTS "<name>" (<every own property, in order>)
createTable(dfl, store, table) ==
    IF store.exists THEN store
    ELSE [exists |-> TRUE,
          cols |-> [i \in 1..Len(table) |-> columnInfo(dfl, table, table[i].name)],
          rows |-> <<>>,
          seq |-> 0]

\* the added column placed first
AddColumnFirst(store, col) ==
    [store EXCEPT !.cols = <<col>> \o @,
                  !.rows = [r \in 1..Len(@) |-> <<col.dflt>> \o @[r]]]

\* ALTER TABLE "<name>" ADD COLUMN <column> <columnInfo>: the column is appended
\* and every row present reads the column's DEFAULT in it
AddColumn(store, col) ==
    [store EXCEPT !.cols = Append(@, col),
                  !.rows = [r \in 1..Len(@) |-> Append(@[r], col.dflt)]]

RECURSIVE alterTable(_, _, _, _)
alterTable(dfl, store, table, columns) ==
    IF columns = <<>> THEN store
    ELSE alterTable(dfl, AddColumn(store, columnInfo(dfl, table, Head(columns))),
                    table, Tail(columns))

\* names.filter((item) => !data.includes(item)), data from PRAGMA table_info
NewProperties(store, table) ==
    SelectSeq(Names(table), LAMBDA n : ~HasCol(store, n))

\* the table rebuilt from the class when it has new properties
SynchronizeRebuild(dfl, store, obj) ==
    LET created == createTable(dfl, store, obj)
        n == NewProperties(created, obj)
    IN  IF Len(n) > 0 THEN [createTable(dfl, NoTable, obj) EXCEPT !.seq = created.seq]
        ELSE created

\* the body of the constructor's loop for the model class
Synchronize(dfl, store, obj) ==
    LET created == createTable(dfl, store, obj)
        n == NewProperties(created, obj)
    IN  IF Len(n) > 0 THEN alterTable(dfl, created, obj, n) ELSE created

-----------------------------------------------------------------------------
(* The store's statements *)

Throw(e) == [err |-> e]

Min(a, b) == IF a < b THEN a ELSE b

\* memcmp order of the texts the model stores
TextRank(s) ==
    CASE s = "" -> 0
      [] s = "-1" -> 1
      [] s = "0" -> 2
      [] s = "1" -> 3
      [] s = "18" -> 4
      [] s = "2" -> 5
      [] s = "3" -> 6
      [] s = "4" -> 7
      [] OTHER -> 8

\* SQLite's order of storage classes: NULL, then numbers, then text
ClassRank(s) == CASE s.t = "null" -> 0 [] s.t = "integer" -> 1 [] OTHER -> 2

SqlLess(a, b) ==
    IF a.t # b.t THEN ClassRank(a) < ClassRank(b)
    ELSE IF a.t = "integer" THEN a.v < b.v
    ELSE IF a.t = "text" THEN TextRank(a.v) < TextRank(b.v)
    ELSE FALSE

\* "<col> <op> ?" on one row; a comparison with NULL is not true
Matches(store, row, where) ==
    IF ~where.has THEN TRUE
    ELSE LET a == row[ColIdx(store, where.col)]
             b == Bind(where.value)
         IN  IF a.t = "null" \/ b.t = "null" THEN FALSE
             ELSE CASE where.op = "=" -> a = b
                    [] where.op = ">" -> SqlLess(b, a)
                    [] OTHER -> SqlLess(a, b)

\* the page with the OFFSET clause left out of the statement
PageWithoutOffset(result, limit, offset) ==
    SubSeq(result, 1, IF limit = 0 THEN Len(result) ELSE Min(Len(result), limit))

\* LIMIT / OFFSET as the statement text carries them: 0 is falsy and leaves the
\* clause out; without LIMIT every row from the offset on is returned
Page(result, limit, offset) ==
    SubSeq(result, offset + 1,
           IF limit = 0 THEN Len(result) ELSE Min(Len(result), offset + limit))

\* db.query("SELECT ..."): the statement is prepared and stepped once; a result
\* without rows is the finalized (done) Rows object
Select(store, query, countOnly) ==
    IF ~store.exists THEN Throw("SqliteError")
    ELSE IF query.where.has /\ ~HasCol(store, query.where.col) THEN Throw("SqliteError")
    ELSE IF query.order.has /\ ~HasCol(store, query.order.by) THEN Throw("SqliteError")
    ELSE IF query.offset # 0 /\ query.limit = 0 THEN Throw("SqliteError")
    ELSE LET matched == SelectSeq(store.rows, LAMBDA r : Matches(store, r, query.where))
             k == IF query.order.has THEN ColIdx(store, query.order.by) ELSE 0
             ordered ==
                 IF ~query.order.has THEN matched
                 ELSE IF query.order.desc
                      THEN SortSeq(matched, LAMBDA x, y : SqlLess(y[k], x[k]))
                      ELSE SortSeq(matched, LAMBDA x, y : SqlLess(x[k], y[k]))
             result == IF countOnly THEN << <<SqlInt(Len(matched))>> >> ELSE ordered
             page == Page(result, query.limit, query.offset)
         IN  [err |-> "none",
              names |-> IF countOnly THEN <<"total">> ELSE ColNames(store),
              rows |-> page,
              done |-> page = <<>>]

\* Rows.columns(): throws on a finalized result
columns(rows) ==
    IF rows.done THEN Throw("SqliteError") ELSE [err |-> "none", names |-> rows.names]

\* the row a statement's column list and bound data make: listed columns take
\* the bound value under the column's affinity, the others their DEFAULT, id the
\* next AUTOINCREMENT value
NewRow(store, names, data) ==
    [c \in 1..Len(store.cols) |->
        LET col == store.cols[c]
        IN  IF \E i \in 1..Len(names) : names[i] = col.name
            THEN Coerce(col.type, data[CHOOSE i \in 1..Len(names) : names[i] = col.name])
            ELSE IF col.name = "id" THEN SqlInt(store.seq + 1)
            ELSE col.dflt]

\* a NOT NULL column is given NULL
NullViolation(store, names, data) ==
    \E i \in 1..Len(names) :
        data[i].t = "null" /\ store.cols[ColIdx(store, names[i])].notnull

\* UPDATE ... SET <names> = <data> WHERE id = <id>
UpdatedRows(store, names, data, id) ==
    [r \in 1..Len(store.rows) |->
        IF store.rows[r][ColIdx(store, "id")] # id THEN store.rows[r]
        ELSE [c \in 1..Len(store.cols) |->
                LET col == store.cols[c]
                IN  IF \E i \in 1..Len(names) : names[i] = col.name
                    THEN Coerce(col.type,
                                data[CHOOSE i \in 1..Len(names) : names[i] = col.name])
                    ELSE store.rows[r][c]]]

-----------------------------------------------------------------------------
(* Record mapper *)

\* Object.defineProperty(nobj, name, { value }): an own property keeps its place
\* and takes the value, an unknown name becomes a new last property
defineProperty(obj, n, x) ==
    IF HasProp(obj, n) THEN SetProp(obj, n, x) ELSE Append(obj, Prop(n, x))

RECURSIVE Hydrate(_, _, _, _)
Hydrate(nobj, names, row, i) ==
    IF i > Len(names) THEN nobj
    ELSE Hydrate(defineProperty(nobj, names[i], ReadColumn(row[i])), names, row, i + 1)

\* the bound data of insertRecord / updateRecord: every own property but the first
Data(table) == [i \in 1..Len(table) - 1 |-> Bind(table[i + 1].value)]

insertRecord(store, table) ==
    LET names == Tail(Names(table))
        data == Data(table)
    IN  IF ~store.exists THEN [err |-> "SqliteError", store |-> store, obj |-> table]
        ELSE IF names = <<>> \/ \E i \in 1..Len(names) : ~HasCol(store, names[i])
             THEN [err |-> "SqliteError", store |-> store, obj |-> table]
        ELSE IF NullViolation(store, names, data)
             THEN [err |-> "SqliteError", store |-> store, obj |-> table]
        ELSE [err |-> "none",
              store |-> [store EXCEPT !.rows = Append(@, NewRow(store, names, data)),
                                      !.seq = @ + 1],
              obj |-> SetProp(table, "id", Num(store.seq + 1))]

\* updateRecord without its WHERE clause
updateRecordEveryRow(store, table) ==
    LET names == Tail(Names(table))
        data == Data(table)
    IN  IF ~store.exists \/ names = <<>>
        THEN [err |-> "SqliteError", store |-> store, obj |-> table]
        ELSE [err |-> "none",
              store |-> [store EXCEPT !.rows =
                            [r \in 1..Len(@) |->
                                UpdatedRows(store, names, data,
                                            @[r][ColIdx(store, "id")])[r]]],
              obj |-> table]

\* updateRecord setting the first non-id field alone
updateRecordOneField(store, table) ==
    LET names == SubSeq(Tail(Names(table)), 1, 1)
        data == SubSeq(Data(table), 1, 1)
    IN  IF ~store.exists \/ names = <<>>
        THEN [err |-> "SqliteError", store |-> store, obj |-> table]
        ELSE [err |-> "none",
              store |-> [store EXCEPT
                            !.rows = UpdatedRows(store, names, data, Bind(Get(table, "id")))],
              obj |-> table]

updateRecord(store, table) ==
    LET names == Tail(Names(table))
        data == Data(table)
    IN  IF ~store.exists THEN [err |-> "SqliteError", store |-> store, obj |-> table]
        ELSE IF names = <<>> \/ \E i \in 1..Len(names) : ~HasCol(store, names[i])
             THEN [err |-> "SqliteError", store |-> store, obj |-> table]
        ELSE IF NullViolation(store, names, data)
                /\ \E r \in 1..Len(store.rows) :
                      store.rows[r][ColIdx(store, "id")] = Bind(Get(table, "id"))
             THEN [err |-> "SqliteError", store |-> store, obj |-> table]
        ELSE [err |-> "none",
              store |-> [store EXCEPT
                            !.rows = UpdatedRows(store, names, data, Bind(Get(table, "id")))],
              obj |-> table]

\* find without the try / catch around rows.columns()
findUncaught(store, table, query, countOnly) ==
    LET rows == Select(store, query, countOnly)
    IN  IF rows.err # "none" THEN [err |-> rows.err, count |-> 0, objects |-> <<>>]
        ELSE IF ~countOnly
             THEN IF columns(rows).err # "none"
                  THEN [err |-> columns(rows).err, count |-> 0, objects |-> <<>>]
                  ELSE LET names == columns(rows).names
                           list == [i \in 1..Len(rows.rows) |->
                                       Hydrate(table, names, rows.rows[i], 1)]
                       IN  [err |-> "none", count |-> Len(list), objects |-> list]
        ELSE IF rows.done THEN [err |-> "TypeError", count |-> 0, objects |-> <<>>]
        ELSE [err |-> "none", count |-> ReadColumn(rows.rows[1][1]).v, objects |-> <<>>]

find(store, table, query, countOnly) ==
    LET rows == Select(store, query, countOnly)
    IN  IF rows.err # "none" THEN [err |-> rows.err, count |-> 0, objects |-> <<>>]
        ELSE IF ~countOnly
             THEN IF columns(rows).err # "none"
                  THEN [err |-> "none", count |-> 0, objects |-> <<>>]
                  ELSE LET names == columns(rows).names
                           list == [i \in 1..Len(rows.rows) |->
                                       Hydrate(table, names, rows.rows[i], 1)]
                       IN  [err |-> "none", count |-> Len(list), objects |-> list]
        ELSE IF rows.done THEN [err |-> "TypeError", count |-> 0, objects |-> <<>>]
        ELSE [err |-> "none", count |-> ReadColumn(rows.rows[1][1]).v, objects |-> <<>>]

\* delete without its WHERE clause
deleteEveryRow(store, obj) ==
    IF ~store.exists THEN [err |-> "SqliteError", store |-> store]
    ELSE [err |-> "none", store |-> [store EXCEPT !.rows = <<>>]]

\* DELETE FROM "<name>" WHERE id = ?
delete(store, obj) ==
    IF ~store.exists THEN [err |-> "SqliteError", store |-> store]
    ELSE [err |-> "none",
          store |-> [store EXCEPT !.rows =
                        SelectSeq(@, LAMBDA r : r[ColIdx(store, "id")] # Bind(Get(obj, "id")))]]

\* save inserting the instance when no row has its id
saveOrInsert(store, obj) ==
    IF Get(obj, "id") = Num(Unsaved)
       \/ (store.exists
           /\ \A r \in 1..Len(store.rows) :
                  store.rows[r][ColIdx(store, "id")] # Bind(Get(obj, "id")))
    THEN insertRecord(store, obj)
    ELSE updateRecord(store, obj)

save(store, obj) ==
    IF Get(obj, "id") = Num(Unsaved) THEN insertRecord(store, obj)
    ELSE updateRecord(store, obj)

NoWhere == [has |-> FALSE, col |-> "", op |-> "", value |-> Num(0)]
Where(c, o, x) == [has |-> TRUE, col |-> c, op |-> o, value |-> x]
NoOrder == [has |-> FALSE, by |-> "", desc |-> FALSE]
Order(c, d) == [has |-> TRUE, by |-> c, desc |-> d]
Query(w, o, l, f) == [where |-> w, order |-> o, limit |-> l, offset |-> f]

NotFound == <<>>

\* .objects[0]: the first instance, or undefined (NotFound)
findOne(store, table, id) ==
    LET r == find(store, table, Query(Where("id", "=", Num(id)), NoOrder, 0, 0), FALSE)
    IN  [err |-> r.err, object |-> IF r.objects = <<>> THEN NotFound ELSE r.objects[1]]

findMany(store, table, query) == find(store, table, query, FALSE)

count(store, table) == find(store, table, Query(NoWhere, NoOrder, 0, 0), TRUE)

countBy(store, table, query) == find(store, table, query, TRUE)

-----------------------------------------------------------------------------
(* The caller *)

\* the values a field of the declared type is assigned
FieldValues(x) ==
    CASE x.t = "boolean" -> {Bool(TRUE), Bool(FALSE)}
      [] x.t = "number" -> {Num(n) : n \in IntVals}
      [] x.t = "string" -> {Str(c) : c \in StrVals}
      [] OTHER -> {x}

\* new entity() with the fields from the k-th on assigned
RECURSIVE AssignedFrom(_, _)
AssignedFrom(e, k) ==
    IF k > Len(e) THEN {e}
    ELSE UNION {{SetProp(o, e[k].name, x) : x \in FieldValues(e[k].value)} :
                   o \in AssignedFrom(e, k + 1)}

Assigned(e) == AssignedFrom(e, 2)

Queries ==
    {Query(w, o, l, f) :
        w \in {NoWhere, Where("id", ">", Num(1)), Where("active", "=", Bool(TRUE))},
        o \in {NoOrder, Order("id", TRUE)},
        l \in 0..MaxPage, f \in 0..MaxPage}

-----------------------------------------------------------------------------
(* Actions *)

\* new SSQL(dbName, [entity], defaults) of a later run of the program, whose
\* model class may have been edited; the instances of the earlier run are gone
Construct(e, dfl) ==
    /\ entity' = e
    /\ defaults' = dfl
    /\ db' = Synchronize(dfl, db, e)
    /\ objs' = <<>>
    /\ dirty' = <<>>
    /\ last' = [op |-> "construct", err |-> "none",
                alters |-> NewProperties(createTable(dfl, db, e), e),
                change |-> IF e = entity THEN "unchanged"
                           ELSE IF Gained(entity, e) THEN "gained" ELSE "other"]

\* const obj = new entity()
New ==
    /\ Len(objs) < MaxObjs
    /\ objs' = Append(objs, entity)
    /\ dirty' = Append(dirty, {})
    /\ last' = [op |-> "new", err |-> "none"]
    /\ UNCHANGED <<entity, defaults, db>>

\* obj.<name> = x
SetField(i, n, x) ==
    /\ objs' = [objs EXCEPT ![i] = SetProp(@, n, x)]
    /\ objs' # objs
    /\ dirty' = [dirty EXCEPT ![i] = @ \cup {n}]
    /\ last' = [op |-> "set", err |-> "none"]
    /\ UNCHANGED <<entity, defaults, db>>

\* orm.save(obj)
Save(i) ==
    LET r == save(db, objs[i])
    IN  /\ Get(objs[i], "id") = Num(Unsaved) /\ db.exists => db.seq < MaxRows
        /\ db' = r.store
        /\ objs' = [objs EXCEPT ![i] = r.obj]
        /\ dirty' = IF r.err = "none" THEN [dirty EXCEPT ![i] = {}] ELSE dirty
        /\ last' = [op |-> "save", err |-> r.err, i |-> i, before |-> objs[i],
                    changed |-> r.store # db]
        /\ UNCHANGED <<entity, defaults>>

\* const obj = new entity(); obj.<field> = ...; orm.save(obj)
Add(o) ==
    LET r == save(db, o)
    IN  /\ db.exists => db.seq < MaxRows
        /\ db' = r.store
        /\ last' = [op |-> "save", err |-> r.err, i |-> 0, before |-> o,
                    changed |-> r.store # db]
        /\ UNCHANGED <<entity, defaults, objs, dirty>>

\* orm.delete(obj)
Delete(i) ==
    LET r == delete(db, objs[i])
    IN  /\ db' = r.store
        /\ last' = [op |-> "delete", err |-> r.err, i |-> i, changed |-> r.store # db]
        /\ UNCHANGED <<entity, defaults, objs, dirty>>

\* the caller's list with x added when findOne found an instance
KeepFound(list, r, x) ==
    IF r.err = "none" /\ r.object # NotFound THEN Append(list, x) ELSE list

\* const obj = orm.findOne(entity, id): the caller keeps the instance found
FindOne(id) ==
    /\ Len(objs) < MaxObjs
    /\ objs' = KeepFound(objs, findOne(db, entity, id), findOne(db, entity, id).object)
    /\ dirty' = KeepFound(dirty, findOne(db, entity, id), {})
    /\ last' = [op |-> "findOne", err |-> findOne(db, entity, id).err, id |-> id,
                object |-> findOne(db, entity, id).object]
    /\ UNCHANGED <<entity, defaults, db>>

\* orm.findOne(entity, id), the instance found is not kept
Lookup(id) ==
    LET r == findOne(db, entity, id)
    IN  /\ last' = [op |-> "findOne", err |-> r.err, id |-> id, object |-> r.object]
        /\ UNCHANGED <<entity, defaults, db, objs, dirty>>

\* orm.findMany(entity, query)
FindMany(q) ==
    LET r == findMany(db, entity, q)
    IN  /\ last' = [op |-> "findMany", err |-> r.err, query |-> q, objects |-> r.objects]
        /\ UNCHANGED <<entity, defaults, db, objs, dirty>>

\* orm.count(entity)
Count ==
    LET r == count(db, entity)
    IN  /\ last' = [op |-> "count", err |-> r.err, count |-> r.count]
        /\ UNCHANGED <<entity, defaults, db, objs, dirty>>

\* orm.countBy(entity, query)
CountBy(q) ==
    LET r == countBy(db, entity, q)
    IN  /\ last' = [op |-> "countBy", err |-> r.err, query |-> q, count |-> r.count,
                    objects |-> r.objects]
        /\ UNCHANGED <<entity, defaults, db, objs, dirty>>

-----------------------------------------------------------------------------
(* Properties *)

Id(obj) == Get(obj, "id").v

Max(a, b) == IF a < b THEN b ELSE a

RowIds(store) == {store.rows[r][ColIdx(store, "id")].v : r \in 1..Len(store.rows)}

HasRow(store, id) == store.exists /\ id \in RowIds(store)

RowAt(store, id) ==
    store.rows[CHOOSE r \in 1..Len(store.rows) : store.rows[r][ColIdx(store, "id")].v = id]

\* the stored value of column n in the row of the id
Stored(store, id, n) == RowAt(store, id)[ColIdx(store, n)]

\* every row but the one of the id is in both stores, with the same values
OtherRowsUnchanged(before, after, id) ==
    /\ RowIds(after) \ {id} = RowIds(before) \ {id}
    /\ \A k \in RowIds(before) \ {id} : RowAt(after, k) = RowAt(before, k)

\* C1: after save of an unsaved instance of a registered model class with
\* fields, the instance has an id other than -1 and findOne of that id returns
\* an instance equal to it, field by field.
C1_SaveRoundTrip ==
    (/\ last.op = "save" /\ last.i > 0
     /\ db.exists /\ Len(entity) > 1
     /\ Get(last.before, "id") = Num(Unsaved))
    => /\ last.err = "none"
       /\ Get(objs[last.i], "id") # Num(Unsaved)
       /\ findOne(db, entity, Id(objs[last.i])).object = objs[last.i]

\* C2 as stated: a persisted instance whose row is present is assigned one
\* field and saved; its id and the row count stay, and in the store only that
\* field's value in its row changes.
C2_UpdateOnlyThatField ==
    [][\A i \in 1..Len(objs) : \A n \in {entity[k].name : k \in 2..Len(entity)} :
          (/\ last'.op = "save" /\ last'.i = i
           /\ dirty[i] = {n}
           /\ Id(objs[i]) # Unsaved /\ HasRow(db, Id(objs[i])))
          => /\ last'.err = "none"
             /\ Id(objs'[i]) = Id(objs[i])
             /\ count(db', entity).count = count(db, entity).count
             /\ OtherRowsUnchanged(db, db', Id(objs[i]))
             /\ HasRow(db', Id(objs[i]))
             /\ \A c \in 1..Len(db.cols) :
                   db.cols[c].name # n
                   => RowAt(db', Id(objs[i]))[c] = RowAt(db, Id(objs[i]))[c]]_vars

\* the fields of the instance other than n hold what its row stores
InSyncBut(store, obj, n) ==
    \A k \in 2..Len(obj) :
        obj[k].name # n => Stored(store, Id(obj), obj[k].name) = Bind(obj[k].value)

\* C2 amended: the same, for an instance whose other fields still hold the
\* values stored in its row; the assigned field's stored value becomes the
\* instance's value.
C2_UpdateOnlyThatFieldInSync ==
    [][\A i \in 1..Len(objs) : \A n \in {entity[k].name : k \in 2..Len(entity)} :
          (/\ last'.op = "save" /\ last'.i = i
           /\ dirty[i] = {n}
           /\ Id(objs[i]) # Unsaved /\ HasRow(db, Id(objs[i]))
           /\ InSyncBut(db, objs[i], n))
          => /\ last'.err = "none"
             /\ Id(objs'[i]) = Id(objs[i])
             /\ count(db', entity).count = count(db, entity).count
             /\ OtherRowsUnchanged(db, db', Id(objs[i]))
             /\ HasRow(db', Id(objs[i]))
             /\ Stored(db', Id(objs[i]), n) = Bind(Get(objs[i], n))
             /\ \A c \in 1..Len(db.cols) :
                   db.cols[c].name # n
                   => RowAt(db', Id(objs[i]))[c] = RowAt(db, Id(objs[i]))[c]]_vars

\* an update has changed one field of a row while another row is stored
C2_Witness ==
    /\ last.op = "save" /\ last.i > 0 /\ last.err = "none" /\ last.changed
    /\ Id(last.before) # Unsaved
    /\ HasRow(db, Id(last.before))
    /\ Cardinality(RowIds(db)) > 1

\* C3: delete of a persisted instance whose row exists: findOne of its id then
\* yields not-found, count is one less, every other row is unchanged.
C3_DeleteRemovesOneRow ==
    [][\A i \in 1..Len(objs) :
          (last'.op = "delete" /\ last'.i = i /\ HasRow(db, Id(objs[i])))
          => /\ last'.err = "none"
             /\ findOne(db', entity, Id(objs[i])).err = "none"
             /\ findOne(db', entity, Id(objs[i])).object = NotFound
             /\ count(db', entity).count = count(db, entity).count - 1
             /\ OtherRowsUnchanged(db, db', Id(objs[i]))
             /\ db'.cols = db.cols]_vars

\* a delete has removed a row and another row is left
C3_Witness ==
    /\ last.op = "delete" /\ last.err = "none" /\ last.changed
    /\ ~HasRow(db, Id(objs[last.i]))
    /\ Cardinality(RowIds(db)) > 0

\* the instances are the rows from the offset on, in the table's row order
NaturalOrder(store, objects, offset) ==
    \A k \in 1..Len(objects) :
        /\ offset + k <= Len(store.rows)
        /\ Get(objects[k], "id") = ReadColumn(store.rows[offset + k][ColIdx(store, "id")])

PlainPage(q) == ~q.where.has /\ ~q.order.has

\* C4 as stated: with N rows, findMany with limit L >= 0 and offset O >= 0 and
\* no order returns max(0, min(L, N - O)) instances in row order.
C4_Pagination ==
    (last.op = "findMany" /\ db.exists /\ PlainPage(last.query))
    => /\ last.err = "none"
       /\ Len(last.objects)
             = Max(0, Min(last.query.limit, Len(db.rows) - last.query.offset))
       /\ NaturalOrder(db, last.objects, last.query.offset)

\* C4 amended: the same for every limit L >= 1 (a limit of 0 is left out of
\* the statement).
C4_PaginationLimited ==
    (last.op = "findMany" /\ db.exists /\ PlainPage(last.query) /\ last.query.limit >= 1)
    => /\ last.err = "none"
       /\ Len(last.objects)
             = Max(0, Min(last.query.limit, Len(db.rows) - last.query.offset))
       /\ NaturalOrder(db, last.objects, last.query.offset)

\* a full page that starts after the first row of the table
C4_Witness ==
    /\ last.op = "findMany" /\ db.exists /\ PlainPage(last.query)
    /\ last.query.limit >= 1 /\ last.query.offset >= 1
    /\ Len(last.objects) = last.query.limit
    /\ Len(db.rows) > last.query.offset

\* the table holds the columns createTable makes for the class, and no other
CreatedFrom(store, d) ==
    /\ store.exists
    /\ \E dfl \in DefaultsArgs : store.cols = createTable(dfl, NoTable, d).cols

ColumnOf(store, n) == store.cols[ColIdx(store, n)]

\* every column of before is a column of after, defined the same, and every
\* row of before is a row of after with the same values in those columns
ColumnsAndValuesKept(before, after) ==
    /\ \A c \in 1..Len(before.cols) :
          /\ HasCol(after, before.cols[c].name)
          /\ ColumnOf(after, before.cols[c].name) = before.cols[c]
    /\ Len(after.rows) = Len(before.rows)
    /\ \A r \in 1..Len(before.rows) : \A c \in 1..Len(before.cols) :
          after.rows[r][ColIdx(after, before.cols[c].name)] = before.rows[r][c]

\* the configured DEFAULT of the type inferred from a field's default value
TypeDefault(dfl, x) ==
    CASE x.t = "boolean" -> dfl.bool
      [] x.t = "string" -> dfl.str
      [] x.t = "number" -> dfl.int
      [] OTHER -> Undefined

\* C5 as stated: a table created from D1 is synchronized against D1 plus one
\* field F of model default V: exactly column F is added, its DEFAULT is V,
\* every row present has F = V, no other column or value changes.
C5_AdditiveMigrationModelDefault ==
    [][\A p \in 2..Len(entity') :
          (/\ last'.op = "construct"
           /\ Len(entity') = Len(entity) + 1
           /\ Remove(entity', p) = entity /\ ~HasProp(entity, entity'[p].name)
           /\ CreatedFrom(db, entity))
          => /\ last'.err = "none"
             /\ Len(db'.cols) = Len(db.cols) + 1
             /\ HasCol(db', entity'[p].name)
             /\ ColumnOf(db', entity'[p].name).dflt = Bind(entity'[p].value)
             /\ \A r \in 1..Len(db'.rows) :
                   db'.rows[r][ColIdx(db', entity'[p].name)] = Bind(entity'[p].value)
             /\ ColumnsAndValuesKept(db, db')]_vars

\* C5 amended: the same, with the DEFAULT of column F and the value of F in
\* every row present being the configured default of F's inferred type.
C5_AdditiveMigration ==
    [][\A p \in 2..Len(entity') :
          (/\ last'.op = "construct"
           /\ Len(entity') = Len(entity) + 1
           /\ Remove(entity', p) = entity /\ ~HasProp(entity, entity'[p].name)
           /\ CreatedFrom(db, entity))
          => /\ last'.err = "none"
             /\ Len(db'.cols) = Len(db.cols) + 1
             /\ HasCol(db', entity'[p].name)
             /\ ColumnOf(db', entity'[p].name).dflt
                   = Bind(TypeDefault(defaults', entity'[p].value))
             /\ \A r \in 1..Len(db'.rows) :
                   db'.rows[r][ColIdx(db', entity'[p].name)]
                      = Bind(TypeDefault(defaults', entity'[p].value))
             /\ ColumnsAndValuesKept(db, db')]_vars

\* a column was added to a table with rows for a field whose own default is
\* not the configured default of its type
C5_Witness ==
    /\ last.op = "construct" /\ last.change = "gained" /\ Len(last.alters) = 1
    /\ Len(db.cols) = Len(entity)
    /\ Len(db.rows) > 0
    /\ Bind(Get(entity, last.alters[1])) # ColumnOf(db, last.alters[1]).dflt

\* C6: synchronizing again for an unchanged class raises no error, issues no
\* ALTER TABLE and leaves columns, types and rows as they were.
C6_IdempotentSchemaCreation ==
    [][(last'.op = "construct" /\ entity' = entity)
          => /\ last'.err = "none"
             /\ last'.alters = <<>>
             /\ db' = db]_vars

\* the class was synchronized again, unchanged, over a table with rows
C6_Witness ==
    /\ last.op = "construct" /\ last.change = "unchanged"
    /\ Len(db.rows) > 0

\* C7: after a synchronization every field of the class has a column, and every
\* column the table had is still there with its type.
C7_AdditiveOnly ==
    [][(last'.op = "construct" /\ last'.err = "none")
          => /\ db'.exists
             /\ \A k \in 1..Len(entity') : HasCol(db', entity'[k].name)
             /\ db.exists =>
                   \A c \in 1..Len(db.cols) :
                       /\ HasCol(db', db.cols[c].name)
                       /\ ColumnOf(db', db.cols[c].name).type = db.cols[c].type]_vars

\* a synchronization added a column while the table keeps a column the class
\* no longer declares
C7_Witness ==
    /\ last.op = "construct" /\ last.alters # <<>>
    /\ \E c \in 1..Len(db.cols) : ~HasProp(entity, db.cols[c].name)

\* the filter of the query names a column of the table, and so does its order
KnownColumns(store, q) ==
    /\ q.where.has => HasCol(store, q.where.col)
    /\ q.order.has => HasCol(store, q.order.by)

Matching(store, where) == {r \in 1..Len(store.rows) : Matches(store, store.rows[r], where)}

\* C8: countBy returns, for every query, the number of rows that satisfy the
\* query's filter, and no instances; count returns the number of rows.
C8_CountBy ==
    /\ (last.op = "countBy" /\ db.exists /\ KnownColumns(db, last.query))
       => /\ last.err = "none"
          /\ last.count = Cardinality(Matching(db, last.query.where))
          /\ last.objects = <<>>
    /\ (last.op = "count" /\ db.exists)
       => /\ last.err = "none"
          /\ last.count = Len(db.rows)

\* C9 as stated: find on a table that does not exist returns zero rows and no
\* error.
C9_DegradeOnMissingTable ==
    /\ (last.op = "findMany" /\ ~db.exists)
       => (last.err = "none" /\ last.objects = <<>>)
    /\ (last.op = "findOne" /\ ~db.exists)
       => (last.err = "none" /\ last.object = NotFound)

\* C9 amended: find leaves the store unchanged; when the statement selects no
\* row of an existing table (the result's columns cannot be read) it returns
\* zero rows and no error; on a table that does not exist the store's error
\* reaches the caller.
C9_DegradeOnEmptyResult ==
    [][/\ last'.op = "findMany"
          => /\ db' = db
             /\ ~db.exists => last'.err = "SqliteError"
             /\ (/\ db.exists /\ KnownColumns(db, last'.query)
                 /\ last'.query.limit # 0 \/ last'.query.offset = 0
                 /\ Cardinality(Matching(db, last'.query.where)) <= last'.query.offset)
                => (last'.err = "none" /\ last'.objects = <<>>)
       /\ last'.op = "findOne"
          => /\ db' = db
             /\ ~db.exists => last'.err = "SqliteError"
             /\ (db.exists /\ ~HasRow(db, last'.id))
                => (last'.err = "none" /\ last'.object = NotFound)]_vars

\* a filter that no row of a table with rows satisfies gave the empty list
C9_Witness ==
    /\ last.op = "findMany" /\ last.err = "none" /\ last.objects = <<>>
    /\ db.exists /\ Len(db.rows) > 0
    /\ last.query.where.has /\ last.query.offset = 0

\* C10 as stated, for one additive migration: when the table's columns are the
\* class's fields in declaration order and the class gains one field, declared
\* anywhere, the columns are again the fields in declaration order.
C10_ColumnOrderIsDeclarationOrder ==
    [][(/\ last'.op = "construct"
        /\ Len(entity') = Len(entity) + 1
        /\ db.exists /\ ColNames(db) = Names(entity)
        /\ Gained(entity, entity'))
          => ColNames(db') = Names(entity')]_vars

\* C10 amended: a synchronization keeps the existing columns in their places
\* and appends the columns of the fields that had none, in declaration order;
\* after an additive migration the columns are the fields in declaration order
\* when the new field is declared last.
C10_ColumnsAppended ==
    [][last'.op = "construct"
          => /\ db.exists =>
                   ColNames(db') = ColNames(db) \o
                       SelectSeq(Names(entity'), LAMBDA n : ~HasCol(db, n))
             /\ (/\ Len(entity') = Len(entity) + 1
                 /\ db.exists /\ ColNames(db) = Names(entity)
                 /\ Gained(entity, entity')
                 /\ Remove(entity', Len(entity')) = entity)
                => ColNames(db') = Names(entity')]_vars

\* a field declared last was added to a table with rows, and the columns are
\* the fields in declaration order
C10_Witness ==
    /\ last.op = "construct" /\ last.change = "gained"
    /\ last.alters = <<entity[Len(entity)].name>>
    /\ ColNames(db) = Names(entity)
    /\ Len(db.rows) > 0

\* the column definition of a field by the type of its default value
InferredColumn(dfl, n, t) ==
    CASE n = "id" -> Column(n, "integer", TRUE, SqlNull)
      [] n # "id" /\ t = "boolean" -> Column(n, "boolean", TRUE, Bind(dfl.bool))
      [] n # "id" /\ t = "string" -> Column(n, "varchar", FALSE, Bind(dfl.str))
      [] n # "id" /\ t = "number" -> Column(n, "integer", TRUE, Bind(dfl.int))
      [] OTHER -> Column(n, "undefined", FALSE, SqlNull)

C12_ReturnedInstanceUpdatesItsRow ==
    [][/\ (last'.op = "findOne" /\ last'.object # NotFound)
          => /\ Id(last'.object) = last'.id
             /\ Id(last'.object) # Unsaved
             /\ HasRow(db, Id(last'.object))
       /\ \A i \in 1..Len(objs) :
             (/\ last'.op = "save" /\ last'.i = i
              /\ dirty[i] # {}
              /\ HasRow(db, Id(objs[i])))
             => /\ last'.err = "none"
                /\ Id(objs'[i]) = Id(objs[i])
                /\ RowIds(db') = RowIds(db)
                /\ count(db', entity).count = count(db, entity).count
                /\ \A n \in dirty[i] :
                      Get(findOne(db', entity, Id(objs[i])).object, n) = Get(objs[i], n)]_vars

\* C13: delete leaves the instance, its id included, as it was; for a persisted
\* instance whose row is gone, a delete and a save raise no error, leave the
\* instance's id and every row as they were (the row is not made again), and
\* count is the same.
C13_DeletedStaysDeleted ==
    [][\A i \in 1..Len(objs) :
          /\ (last'.op = "delete" /\ last'.i = i) => objs' = objs
          /\ (/\ last'.op \in {"delete", "save"} /\ last'.i = i
              /\ Id(objs[i]) # Unsaved
              /\ db.exists /\ ~HasRow(db, Id(objs[i])))
             => /\ last'.err = "none"
                /\ Id(objs'[i]) = Id(objs[i])
                /\ db' = db
                /\ ~HasRow(db', Id(objs[i]))
                /\ count(db', entity).count = count(db, entity).count]_vars

\* an instance assigned after its row was deleted has been saved, without
\* error, next to a row that is stored
C13_Witness ==
    /\ last.op = "save" /\ last.i > 0 /\ last.err = "none" /\ ~last.changed
    /\ Id(last.before) # Unsaved
    /\ db.exists /\ ~HasRow(db, Id(last.before))
    /\ Len(db.rows) > 0
    /\ \E k \in 2..Len(entity) : last.before[k].value # entity[k].value

\* the row of the instance's id stores the value of every non-id field of obj
RowHolds(store, obj) ==
    \A k \in 2..Len(obj) : Stored(store, Id(obj), obj[k].name) = Bind(obj[k].value)

\* C14: a save of a loaded instance whose row is present raises no error and
\* leaves in the row the instance's value of every non-id field; where another
\* instance of the same row holds another value of a field, saved before or
\* not, the row does not hold that value after the save.
C14_LastSaveWins ==
    [][\A i \in 1..Len(objs) :
          (/\ last'.op = "save" /\ last'.i = i
           /\ Id(objs[i]) # Unsaved /\ HasRow(db, Id(objs[i])))
          => /\ last'.err = "none"
             /\ HasRow(db', Id(objs[i]))
             /\ RowHolds(db', objs[i])
             /\ \A j \in 1..Len(objs) : \A k \in 2..Len(entity) :
                   (/\ Id(objs[j]) = Id(objs[i])
                    /\ Bind(objs[j][k].value) # Bind(objs[i][k].value))
                   => Stored(db', Id(objs[i]), entity[k].name) # Bind(objs[j][k].value)]_vars

\* two instances of one row: j, saved, holds a value it was assigned in field n;
\* i, assigned in another field m and saved last, still held the loaded value
\* of n; the row holds i's values and j's change is gone
C14_Witness ==
    /\ last.op = "save" /\ last.i > 0 /\ last.err = "none" /\ last.changed
    /\ \E j \in 1..Len(objs) : \E n, m \in 2..Len(entity) :
          /\ j # last.i /\ n # m
          /\ Id(objs[j]) = Id(objs[last.i]) /\ HasRow(db, Id(objs[j]))
          /\ dirty[j] = {}
          /\ Bind(objs[j][n].value) # Bind(entity[n].value)
          /\ Bind(objs[last.i][n].value) = Bind(entity[n].value)
          /\ Bind(objs[last.i][m].value) # Bind(entity[m].value)
          /\ Bind(objs[j][m].value) = Bind(entity[m].value)
          /\ RowHolds(db, objs[last.i])
          /\ ~RowHolds(db, objs[j])

-----------------------------------------------------------------------------
(* Specifications *)

\* the state after new SSQL(...): the model class is among the entities, or is
\* not and has no table
Init ==
    /\ entity \in {SSQLTable, User}
    /\ defaults = DefaultDefaults
    /\ \E registered \in BOOLEAN :
          db = IF registered THEN Synchronize(defaults, NoTable, entity) ELSE NoTable
    /\ objs = <<>>
    /\ dirty = <<>>
    /\ last = [op |-> "construct", err |-> "none", alters |-> <<>>, change |-> "other"]

\* saving, loading and deleting instances of the model class
Next ==
    \/ New
    \/ \E i \in 1..Len(objs) : \E k \in 2..Len(entity) :
          \E x \in FieldValues(entity[k].value) : SetField(i, entity[k].name, x)
    \/ \E i \in 1..Len(objs) : Save(i)
    \/ \E i \in 1..Len(objs) : Delete(i)
    \/ \E id \in 1..MaxRows : FindOne(id)

Spec == Init /\ [][Next]_vars

\* queries over the rows of a registered model class
InitQuery ==
    /\ entity \in {SSQLTable, Flagged}
    /\ defaults = DefaultDefaults
    /\ db \in {Synchronize(defaults, NoTable, entity), NoTable}
    /\ objs = <<>>
    /\ dirty = <<>>
    /\ last = [op |-> "construct", err |-> "none", alters |-> <<>>, change |-> "other"]

NextQuery ==
    \/ \E o \in Assigned(entity) : Add(o)
    \/ \E q \in Queries : FindMany(q)
    \/ \E q \in Queries : CountBy(q)
    \/ Count
    \/ \E id \in 1..MaxRows : Lookup(id)

SpecQuery == InitQuery /\ [][NextQuery]_vars

\* runs of the program over one database file, with the same defaults argument,
\* while the model class is edited
InitSync ==
    /\ entity \in Entities
    /\ defaults \in DefaultsArgs
    /\ db = Synchronize(defaults, NoTable, entity)
    /\ objs = <<>>
    /\ dirty = <<>>
    /\ last = [op |-> "construct", err |-> "none", alters |-> <<>>, change |-> "other"]

NextSync ==
    \/ \E e \in Entities : Construct(e, defaults)
    \/ Add(entity)

SpecSync == InitSync /\ [][NextSync]_vars

\* runs of the program while the class User is edited, saving instances
\* whose fields were assigned
InitInfer ==
    /\ entity \in Versions
    /\ defaults \in DefaultsArgs
    /\ db = Synchronize(defaults, NoTable, entity)
    /\ objs = <<>>
    /\ dirty = <<>>
    /\ last = [op |-> "construct", err |-> "none", alters |-> <<>>, change |-> "other"]

NextInfer ==
    \/ \E e \in Versions : Construct(e, defaults)
    \/ \E o \in Assigned(entity) : Add(o)

SpecInfer == InitInfer /\ [][NextInfer]_vars

\* instances loaded from the table, assigned, saved and deleted; the rows are
\* those of saved new instances
InitLoaded ==
    /\ entity \in {User, Aged}
    /\ defaults = DefaultDefaults
    /\ db = Synchronize(defaults, NoTable, entity)
    /\ objs = <<>>
    /\ dirty = <<>>
    /\ last = [op |-> "construct", err |-> "none", alters |-> <<>>, change |-> "other"]

NextLoaded ==
    \/ Add(entity)
    \/ \E id \in 1..MaxRows : FindOne(id)
    \/ \E i \in 1..Len(objs) : \E k \in 2..Len(entity) :
          \E x \in FieldValues(entity[k].value) : SetField(i, entity[k].name, x)
    \/ \E i \in 1..Len(objs) : Save(i)
    \/ \E i \in 1..Len(objs) : Delete(i)

SpecLoaded == InitLoaded /\ [][NextLoaded]_vars
====
